---- MODULE Spec2Model ----
(***************************************************************************)
(* The real-time fan-out engine of robofleet: the ConnectionManager        *)
(* registry (app/core/websocket.py), the two WebSocket session handlers    *)
(* (app/api/v1/websocket.py) and the status mutation that schedules a      *)
(* broadcast (app/api/v1/robots.py).                                       *)
(*                                                                         *)
(* Scheduling is asyncio's: one thread, a coroutine runs without           *)
(* interruption from one await to the next.  Every action below is one     *)
(* such stretch: it resumes a coroutine at the await it is suspended in    *)
(* and runs it to its next await (or to its end).                          *)
(***************************************************************************)
EXTENDS Integers, Sequences, FiniteSets, TLC

\* ------------------------------------------------------------- bounds
NumConns  == 3      \* WebSocket objects that ever connect
NumRobots == 1      \* robots in the Data Store
NumTasks  == 2      \* status mutations (each schedules one background task)
NumApiConns == 2    \* WebSocket objects the directly driven registry is given
MaxEvents == 5      \* inputs of one run: connection attempts, client closes,
                    \* inbound frames and status mutations
NumCrowd  == 4      \* subscribers a crowded topic starts with
CrowdEvents == 3    \* inputs of a run that starts on a crowded topic

Conns    == 1..NumConns
RobotIds == 1..(NumRobots + 1)     \* the last id never resolves
Tasks    == 1..NumTasks
ApiConns == 1..NumApiConns
CrowdConns == 1..(NumCrowd + CrowdEvents)
fleet_id == 0                      \* UUID(int=0), the fleet sentinel
Topics   == RobotIds \cup {fleet_id}
None     == -1                     \* Python's None

\* The inbound frames a client can send, by what receive_json / data.get do
\* with them.
Frames == {"ping", "other_type", "no_type", "non_object", "invalid_json"}

VARIABLES
    connections,    \* ConnectionManager._connections : dict topic -> set of ws
    subscriptions,  \* ConnectionManager._subscriptions : dict ws -> set of topics
    table,          \* per topic: the hash table of the set object _connections[topic]
    store,          \* the Data Store: dict robot id -> version of its state
    sess,           \* per WebSocket: the handler coroutine's position and locals
    clientOpen,     \* per WebSocket: the client has not closed the transport
    inbox,          \* per WebSocket: the messages written to it, in order
    events,         \* inputs consumed so far
    deregCalls,     \* per WebSocket: calls of ConnectionManager.disconnect(ws)
    task,           \* per background task: position and locals of broadcast_robot_update
    committed,      \* number of robot mutations flushed so far
    lastOp,         \* the last direct call of the ConnectionManager API
    response        \* per status mutation: the result its caller gets

vars == << connections, subscriptions, table, store, sess, clientOpen, inbox,
           events, deregCalls, task, committed, lastOp, response >>

\* ------------------------------------------------------ dict helpers
Put(d, k, v) == [x \in DOMAIN d \cup {k} |-> IF x = k THEN v ELSE d[x]]

Restrict(d, keys) == [x \in keys |-> d[x]]

Get(d, k, default) == IF k \in DOMAIN d THEN d[k] ELSE default

EmptyDict == [x \in {} |-> {}]

\* ------------------------------------------- ConnectionManager (pure)
\* connect with the assignment the fleet endpoint uses (`_subscriptions[ws] =
\* {robot_id}`) in place of lines 24-26: the connection's entry is replaced.
connect_overwrites(C, S, websocket, robot_id) ==
    LET C1 == IF robot_id \notin DOMAIN C THEN Put(C, robot_id, {}) ELSE C
        C2 == [C1 EXCEPT ![robot_id] = @ \cup {websocket}]
    IN  [connections |-> C2, subscriptions |-> Put(S, websocket, {robot_id})]

\* connect, after the accept: lines 20-26.
connect(C, S, websocket, robot_id) ==
    LET C1 == IF robot_id \notin DOMAIN C THEN Put(C, robot_id, {}) ELSE C
        C2 == [C1 EXCEPT ![robot_id] = @ \cup {websocket}]
        S1 == IF websocket \notin DOMAIN S THEN Put(S, websocket, {}) ELSE S
        S2 == [S1 EXCEPT ![websocket] = @ \cup {robot_id}]
    IN  [connections |-> C2, subscriptions |-> S2]

\* The registration the fleet endpoint does by hand: lines 101-104.
fleet_register(C, S, websocket) ==
    LET C1 == IF fleet_id \notin DOMAIN C THEN Put(C, fleet_id, {}) ELSE C
        C2 == [C1 EXCEPT ![fleet_id] = @ \cup {websocket}]
    IN  [connections |-> C2, subscriptions |-> Put(S, websocket, {fleet_id})]

\* disconnect without line 36: the connection's own entry is left behind.
disconnect_keeps_entry(C, S, websocket) ==
    IF websocket \in DOMAIN S
    THEN LET mine == S[websocket] \cap DOMAIN C
             C1   == [k \in DOMAIN C |->
                        IF k \in mine THEN C[k] \ {websocket} ELSE C[k]]
             keep == {k \in DOMAIN C : ~(k \in mine /\ C1[k] = {})}
         IN  [connections |-> Restrict(C1, keep), subscriptions |-> S]
    ELSE [connections |-> C, subscriptions |-> S]

\* disconnect without lines 34-35: an emptied topic keeps its entry.
disconnect_no_prune(C, S, websocket) ==
    IF websocket \in DOMAIN S
    THEN LET mine == S[websocket] \cap DOMAIN C
             C1   == [k \in DOMAIN C |->
                        IF k \in mine THEN C[k] \ {websocket} ELSE C[k]]
         IN  [connections   |-> C1,
              subscriptions |-> Restrict(S, DOMAIN S \ {websocket})]
    ELSE [connections |-> C, subscriptions |-> S]

\* disconnect: lines 30-36.  The topics of the connection are independent of
\* each other, so the loop's order does not matter.
disconnect(C, S, websocket) ==
    IF websocket \in DOMAIN S
    THEN LET mine == S[websocket] \cap DOMAIN C
             C1   == [k \in DOMAIN C |->
                        IF k \in mine THEN C[k] \ {websocket} ELSE C[k]]
             keep == {k \in DOMAIN C : ~(k \in mine /\ C1[k] = {})}
         IN  [connections   |-> Restrict(C1, keep),
              subscriptions |-> Restrict(S, DOMAIN S \ {websocket})]
    ELSE [connections |-> C, subscriptions |-> S]

\* A broadcast without its cleanup loop.
disconnect_all_skipped(C, S, dead) == [connections |-> C, subscriptions |-> S]

\* The cleanup loop of a broadcast: lines 51-52.
RECURSIVE disconnect_all(_, _, _)
disconnect_all(C, S, dead) ==
    IF dead = << >>
    THEN [connections |-> C, subscriptions |-> S]
    ELSE LET r == disconnect(C, S, Head(dead))
         IN  disconnect_all(r.connections, r.subscriptions, Tail(dead))

\* get_connection_count: lines 72-74.  `if robot_id:` is false for None; a
\* UUID is always truthy, the fleet sentinel included.
RECURSIVE SumLen(_, _)
SumLen(C, keys) ==
    IF keys = {} THEN 0
    ELSE LET k == CHOOSE x \in keys : TRUE
         IN  Cardinality(C[k]) + SumLen(C, keys \ {k})

get_connection_count(C, robot_id) ==
    IF robot_id # None
    THEN Cardinality(Get(C, robot_id, {}))
    ELSE SumLen(C, DOMAIN C)

\* ----------------------------------------------------------- sessions
NewSess == [pc |-> "new", kind |-> "none", rid |-> None, snap |-> None,
            msg |-> << >>, code |-> 0]

\* The handler moves on from the block that holds the robot snapshot and the
\* connected message: these locals are dead from here on.
Leave(s, pc) == [s EXCEPT !.pc = pc, !.snap = None, !.msg = << >>]

\* Positions in which the handler coroutine is alive and the server side of
\* the transport is open.
LivePcs == {"accept", "send_connected", "receive", "send_pong",
            "fleet_query", "fleet_send"}

\* A write to the connection succeeds: the client has not closed and the
\* handler has not ended (the server closes the socket when it ends).
Writable(c) == clientOpen[c] /\ sess[c].pc \in LivePcs

\* ------------------------------------------- the set objects' tables
\* CPython keeps a set in a table of mask + 1 slots; `fill` counts the slots
\* taken by a member or by the dummy a discard leaves behind.  `set()` has
\* the minimal table; this is it after the first add (lines 21-22).
NewTable == [fill |-> 1, mask |-> 7]

\* set_table_resize(so, used * 4): the smallest table with more slots than
\* that.
GrownMask(used) ==
    IF used * 4 < 8 THEN 7
    ELSE IF used * 4 < 16 THEN 15
    ELSE IF used * 4 < 32 THEN 31
    ELSE 63

\* set_add_entry for a new member, `used` counting it: it lands on a dummy's
\* slot (fresh = FALSE), or takes an unused slot, and then the table is
\* rebuilt without dummies once fill * 5 >= mask * 3.
Added(tb, used, fresh) ==
    IF ~fresh THEN tb
    ELSE IF (tb.fill + 1) * 5 < tb.mask * 3 THEN [tb EXCEPT !.fill = @ + 1]
    ELSE [fill |-> used, mask |-> GrownMask(used)]

\* The tables after _connections went from C to C2.  Which slot a new member
\* lands on depends on its hash, the object's address.
SetTable(C, C2) ==
    \E fresh \in BOOLEAN :
        table' = [T \in DOMAIN C2 |->
                    IF T \notin DOMAIN C THEN NewTable
                    ELSE IF C2[T] \ C[T] # {}
                    THEN Added(table[T], Cardinality(C2[T]),
                               fresh \/ table[T].fill = Cardinality(C[T]))
                    ELSE table[T]]

\* The table of topic T was rebuilt in this step: its members moved to new
\* slots.
Rebuilt(T) ==
    /\ T \in DOMAIN table /\ T \in DOMAIN table'
    /\ \/ table'[T].mask # table[T].mask
       \/ table'[T].fill < table[T].fill

\* ----------------------------------------------------------- tasks
\* A coroutine that has returned or raised keeps no locals; what it was
\* called with and the subscriber set it looked up stay on record.
Ended(tk, pc) == [pc |-> pc, rid |-> tk.rid, seq |-> tk.seq, used |-> 0,
                  visited |-> {}, cur |-> None, dead |-> << >>,
                  detached |-> FALSE, added |-> {}, removed |-> {},
                  moved |-> FALSE, passed |-> {},
                  snapshot |-> tk.snapshot]

IdleTask == [pc |-> "idle", rid |-> None, seq |-> 0, used |-> 0,
             visited |-> {}, cur |-> None, dead |-> << >>,
             detached |-> FALSE, added |-> {}, removed |-> {},
             moved |-> FALSE, passed |-> {},
             snapshot |-> {}]

\* What a change of _connections from C to C2 does to the set objects the
\* suspended sweeps iterate: a sweep holds the set object it looked up at line
\* 44; a deleted key leaves it holding the emptied, unreachable object.  The
\* iterator keeps a slot index: when the table is rebuilt, any member may sit
\* ahead of it, yielded before or not (`moved`; `passed` are the members
\* yielded since).
Track(tk, C, C2) ==
    [t \in Tasks |->
        IF tk[t].pc = "write" /\ ~tk[t].detached
        THEN LET r   == tk[t].rid
                 old == C[r]
                 new == Get(C2, r, {})
             IN  [tk[t] EXCEPT !.detached = (r \notin DOMAIN C2),
                               !.added    = @ \cup (new \ old),
                               !.removed  = @ \cup (old \ new),
                               !.moved    = @ \/ Rebuilt(r),
                               !.passed   = IF Rebuilt(r) THEN {} ELSE @]
        ELSE tk[t]]

\* ------------------------------------------------- shared step pieces
\* The step consumes one input of the environment.
Input == events < MaxEvents /\ events' = events + 1

\* WebSocket objects are fresh per connection attempt: they are numbered in
\* the order their handlers start.
Arrives(c) ==
    sess[c].pc = "new" /\ \A d \in DOMAIN sess : d < c => sess[d].pc # "new"

SetRegistry(reg) ==
    /\ connections' = reg.connections
    /\ subscriptions' = reg.subscriptions
    /\ SetTable(connections, reg.connections)

\* manager.disconnect(websocket) called from a session handler (lines 65, 112).
SessionDisconnect(c) ==
    /\ SetRegistry(disconnect(connections, subscriptions, c))
    /\ deregCalls' = [deregCalls EXCEPT ![c] = @ + 1]
    /\ task' = Track(task, connections, connections')

\* ------------------------------------------------ robot_status_stream
\* The handler without the check of lines 30-32.
RobotQuery_unchecked(c, r) ==
    /\ Input
    /\ Arrives(c)
    /\ sess' = [sess EXCEPT ![c] =
                 [@ EXCEPT !.pc = "accept", !.kind = "robot", !.rid = r,
                           !.snap = Get(store, r, None)]]
    /\ UNCHANGED << connections, subscriptions, table, store, clientOpen, inbox,
                    deregCalls, task, committed, lastOp, response >>

\* Lines 26-32: the lookup, and the refusal when the robot does not resolve.
RobotQuery(c, r) ==
    /\ Input
    /\ Arrives(c)
    /\ sess' = [sess EXCEPT ![c] =
                 IF r \in DOMAIN store
                 THEN [@ EXCEPT !.pc = "accept", !.kind = "robot", !.rid = r,
                                !.snap = store[r]]
                 ELSE [@ EXCEPT !.pc = "rejected", !.kind = "robot", !.rid = r,
                                !.code = 4004]]
    /\ UNCHANGED << connections, subscriptions, table, store, clientOpen, inbox,
                    deregCalls, task, committed, lastOp, response >>

\* Lines 35-53 up to the await of send_json: accept returns, the connection is
\* registered, the connected message is built (the count is read here).
RobotAccept(c) ==
    /\ sess[c].pc = "accept"
    /\ LET reg == connect(connections, subscriptions, c, sess[c].rid)
       IN  /\ SetRegistry(reg)
           /\ sess' = [sess EXCEPT ![c] =
                 [@ EXCEPT !.pc = "send_connected",
                           !.msg = << "connected", sess[c].rid, sess[c].snap,
                                      get_connection_count(reg.connections,
                                                           sess[c].rid) >>]]
    /\ task' = Track(task, connections, connections')
    /\ UNCHANGED << store, clientOpen, inbox, events, deregCalls, committed, lastOp, response >>

\* The handler with the subscriber count read when the write completes, not
\* when the message is built.
RobotSendConnected_late_count(c) ==
    /\ sess[c].pc = "send_connected"
    /\ IF Writable(c)
       THEN /\ inbox' = [inbox EXCEPT ![c] =
                           Append(@, [sess[c].msg EXCEPT ![4] =
                                        get_connection_count(connections,
                                                             sess[c].rid)])]
            /\ sess' = [sess EXCEPT ![c] = Leave(@, "receive")]
       ELSE /\ sess' = [sess EXCEPT ![c] = Leave(@, "crashed")]
            /\ UNCHANGED inbox
    /\ UNCHANGED << connections, subscriptions, table, store, clientOpen, events,
                    deregCalls, task, committed, lastOp, response >>

\* Line 38, the write itself.  It is outside the try of line 55: an error of
\* the write ends the handler with the connection still registered.
RobotSendConnected(c) ==
    /\ sess[c].pc = "send_connected"
    /\ IF Writable(c)
       THEN /\ inbox' = [inbox EXCEPT ![c] = Append(@, sess[c].msg)]
            /\ sess' = [sess EXCEPT ![c] = Leave(@, "receive")]
       ELSE /\ sess' = [sess EXCEPT ![c] = Leave(@, "crashed")]
            /\ UNCHANGED inbox
    /\ UNCHANGED << connections, subscriptions, table, store, clientOpen, events,
                    deregCalls, task, committed, lastOp, response >>

\* ------------------------------------------------ fleet_status_stream
\* Lines 75-79: accept, then the query is awaited.
FleetAccept(c) ==
    /\ Input
    /\ Arrives(c)
    /\ sess' = [sess EXCEPT ![c] =
                 [@ EXCEPT !.pc = "fleet_query", !.kind = "fleet",
                           !.rid = fleet_id]]
    /\ UNCHANGED << connections, subscriptions, table, store, clientOpen, inbox,
                    deregCalls, task, committed, lastOp, response >>

\* Lines 79-94 up to the await of send_json.
FleetQuery(c) ==
    /\ sess[c].pc = "fleet_query"
    /\ sess' = [sess EXCEPT ![c] =
                 [@ EXCEPT !.pc = "fleet_send",
                           !.msg = << "connected", fleet_id,
                                      Cardinality(DOMAIN store) >>]]
    /\ UNCHANGED << connections, subscriptions, table, store, clientOpen, inbox,
                    events, deregCalls, task, committed, lastOp, response >>

\* The handler counting the robots again when it writes the message.
FleetSendConnected_late_count(c) ==
    /\ sess[c].pc = "fleet_send"
    /\ IF Writable(c)
       THEN /\ inbox' = [inbox EXCEPT ![c] =
                           Append(@, << "connected", fleet_id,
                                        Cardinality(DOMAIN store) >>)]
            /\ SetRegistry(fleet_register(connections, subscriptions, c))
            /\ sess' = [sess EXCEPT ![c] = Leave(@, "receive")]
       ELSE /\ sess' = [sess EXCEPT ![c] = Leave(@, "crashed")]
            /\ UNCHANGED << inbox, connections, subscriptions, table >>
    /\ task' = Track(task, connections, connections')
    /\ UNCHANGED << store, clientOpen, events, deregCalls, committed, lastOp, response >>

\* Lines 82-104: the write, then the registration under the sentinel.
FleetSendConnected(c) ==
    /\ sess[c].pc = "fleet_send"
    /\ IF Writable(c)
       THEN /\ inbox' = [inbox EXCEPT ![c] = Append(@, sess[c].msg)]
            /\ SetRegistry(fleet_register(connections, subscriptions, c))
            /\ sess' = [sess EXCEPT ![c] = Leave(@, "receive")]
       ELSE /\ sess' = [sess EXCEPT ![c] = Leave(@, "crashed")]
            /\ UNCHANGED << inbox, connections, subscriptions, table >>
    /\ task' = Track(task, connections, connections')
    /\ UNCHANGED << store, clientOpen, events, deregCalls, committed, lastOp, response >>

\* ------------------------------------- the receive loop of both handlers
\* Lines 56-65 and 107-112: receive_json returns a frame or raises.
ReceiveDisconnect(c) ==
    /\ sess[c].pc = "receive"
    /\ ~clientOpen[c]
    /\ SessionDisconnect(c)
    /\ sess' = [sess EXCEPT ![c].pc = "closed"]
    /\ UNCHANGED << store, clientOpen, inbox, events, committed, lastOp, response >>

\* The loop with the test of lines 61 and 109 reading the key the outbound
\* messages use ("event"): a frame of type ping is an object like any other.
ReceiveFrame_event_key(c, f) ==
    /\ Input
    /\ sess[c].pc = "receive"
    /\ clientOpen[c]
    /\ sess' = [sess EXCEPT ![c].pc =
                 CASE f \in {"ping", "other_type", "no_type"} -> "receive"
                   [] OTHER -> "crashed"]
    /\ UNCHANGED << connections, subscriptions, table, store, clientOpen, inbox,
                    deregCalls, task, committed, lastOp, response >>

ReceiveFrame(c, f) ==
    /\ Input
    /\ sess[c].pc = "receive"
    /\ clientOpen[c]
    /\ sess' = [sess EXCEPT ![c].pc =
                 CASE f = "ping" -> "send_pong"
                   [] f \in {"other_type", "no_type"} -> "receive"
                   [] OTHER -> "crashed"]
    /\ UNCHANGED << connections, subscriptions, table, store, clientOpen, inbox,
                    deregCalls, task, committed, lastOp, response >>

\* Lines 62 and 110: the pong write.  A failed write raises WebSocketDisconnect
\* or another error, as the transport decides; only the first is caught.
SendPong(c) ==
    /\ sess[c].pc = "send_pong"
    /\ \/ /\ Writable(c)
          /\ inbox' = [inbox EXCEPT ![c] = Append(@, << "pong" >>)]
          /\ sess' = [sess EXCEPT ![c].pc = "receive"]
          /\ UNCHANGED << connections, subscriptions, table, deregCalls, task >>
       \/ /\ ~Writable(c)
          /\ SessionDisconnect(c)
          /\ sess' = [sess EXCEPT ![c].pc = "closed"]
          /\ UNCHANGED inbox
       \/ /\ ~Writable(c)
          /\ sess' = [sess EXCEPT ![c].pc = "crashed"]
          /\ UNCHANGED << inbox, connections, subscriptions, table, deregCalls, task >>
    /\ UNCHANGED << store, clientOpen, events, committed, lastOp, response >>

\* The client closes the transport of an accepted connection.
ClientClose(c) ==
    /\ Input
    /\ clientOpen[c]
    /\ sess[c].pc \in LivePcs \ {"accept"}
    /\ clientOpen' = [clientOpen EXCEPT ![c] = FALSE]
    /\ UNCHANGED << connections, subscriptions, table, store, sess, inbox,
                    deregCalls, task, committed, lastOp, response >>

Init ==
    /\ connections = EmptyDict
    /\ subscriptions = EmptyDict
    /\ table = EmptyDict
    /\ store = [r \in 1..NumRobots |-> 0]
    /\ sess = [c \in Conns |-> NewSess]
    /\ clientOpen = [c \in Conns |-> TRUE]
    /\ inbox = [c \in Conns |-> << >>]
    /\ events = 0
    /\ deregCalls = [c \in Conns |-> 0]
    /\ task = [t \in Tasks |-> IdleTask]
    /\ committed = 0
    /\ lastOp = << "none", None, {} >>
    /\ response = [t \in Tasks |-> None]

\* ------------------------------------------------ update_robot_status
\* The flush of a mutation takes the row's write lock, which the session
\* holds until its transaction ends.
RowLocked(r) == \E u \in Tasks : task[u].pc = "returned" /\ task[u].rid = r

\* The handler with asyncio.create_task in place of background_tasks.add_task:
\* the dispatch is runnable as soon as the handler returns.
update_robot_status_create_task(t, r) ==
    /\ Input
    /\ task[t].pc = "idle"
    /\ \A u \in Tasks : u < t => task[u].pc # "idle"
    /\ r \in DOMAIN store
    /\ ~RowLocked(r)
    /\ committed' = committed + 1
    /\ task' = [task EXCEPT ![t] =
                 [@ EXCEPT !.pc = "scheduled", !.rid = r, !.seq = committed + 1]]
    /\ response' = [response EXCEPT ![t] = 200]
    /\ UNCHANGED << connections, subscriptions, table, store, sess, clientOpen, inbox,
                    deregCalls, lastOp >>

\* The handler with `await manager.broadcast_robot_update(...)` in place of
\* the add_task of line 117: the dispatch runs inside the handler, before it
\* returns.
update_robot_status_awaits(t, r) ==
    /\ Input
    /\ task[t].pc = "idle"
    /\ \A u \in Tasks : u < t => task[u].pc # "idle"
    /\ r \in DOMAIN store
    /\ ~RowLocked(r)
    /\ committed' = committed + 1
    /\ task' = [task EXCEPT ![t] =
                 [@ EXCEPT !.pc = "scheduled", !.rid = r, !.seq = committed + 1]]
    /\ UNCHANGED << connections, subscriptions, table, store, sess, clientOpen, inbox,
                    deregCalls, lastOp, response >>

\* robots.py lines 101-137: the robot is looked up, mutated and flushed,
\* broadcast_robot_update(robot_id, data) is added as a background task, and
\* the handler returns the robot.  The payload carries the mutated state, here
\* the mutation's number.  Nothing is committed by the handler itself.
update_robot_status(t, r) ==
    /\ Input
    /\ task[t].pc = "idle"
    /\ \A u \in Tasks : u < t => task[u].pc # "idle"
    /\ r \in DOMAIN store
    /\ ~RowLocked(r)
    /\ committed' = committed + 1
    /\ task' = [task EXCEPT ![t] =
                 [@ EXCEPT !.pc = "returned", !.rid = r, !.seq = committed + 1]]
    /\ response' = [response EXCEPT ![t] = 200]
    /\ UNCHANGED << connections, subscriptions, table, store, sess, clientOpen, inbox,
                    deregCalls, lastOp >>

\* The end of the request's session (get_session of app/db/session.py): the
\* transaction is committed once the handler has returned, before the response
\* is sent and the background tasks are run.  A commit the Data Store refuses
\* rolls the mutation back: the caller gets an error and the background tasks
\* of the request are never run.
commit(t) ==
    /\ task[t].pc = "returned"
    /\ \/ /\ store' = [store EXCEPT ![task[t].rid] = task[t].seq]
          /\ task' = [task EXCEPT ![t].pc = "scheduled"]
          /\ UNCHANGED << events, response >>
       \/ /\ Input
          /\ task' = [task EXCEPT ![t] = Ended(@, "rolled_back")]
          /\ response' = [response EXCEPT ![t] = 500]
          /\ UNCHANGED store
    /\ UNCHANGED << connections, subscriptions, table, sess, clientOpen, inbox,
                    deregCalls, committed, lastOp >>

\* --------------------------------------------- broadcast_robot_update
\* The set object a sweep iterates, as it is now.
LiveSet(tk, C) == IF tk.detached THEN {} ELSE C[tk.rid]

\* Python's set iterator raises RuntimeError from next() when the set's size
\* differs from the size at iter() (line 44).
SizeChanged(tk, C) == Cardinality(LiveSet(tk, C)) # tk.used

\* What next() can still yield.  Members present since iter() keep their slot,
\* so an unvisited one is always ahead of the iterator; a member added during
\* the sweep may sit ahead of it or behind it.  Once the table was rebuilt
\* every member may sit ahead or behind, whether it was yielded before or not.
Remaining(tk, C) ==
    IF tk.moved THEN LiveSet(tk, C) \ tk.passed
    ELSE LiveSet(tk, C) \ tk.visited

CanStop(tk, C) == tk.moved \/ Remaining(tk, C) \subseteq tk.added

\* The dispatch with the sweep of broadcast_fleet_update (lines 56-58) in
\* place of the topic's own set: it writes to a connection of any topic.
BroadcastStart_all_topics(t) ==
    /\ task[t].pc = "scheduled"
    /\ IF task[t].rid \notin DOMAIN connections
       THEN task' = [task EXCEPT ![t] = Ended(@, "done")]
       ELSE \E w \in UNION {connections[T] : T \in DOMAIN connections} :
              task' = [task EXCEPT ![t] =
                 [@ EXCEPT !.pc = "write", !.cur = w, !.visited = {w},
                           !.used = Cardinality(connections[task[t].rid]),
                           !.snapshot = connections[task[t].rid]]]
    /\ UNCHANGED << connections, subscriptions, table, store, sess, clientOpen, inbox,
                    events, deregCalls, committed, lastOp, response >>

\* Lines 40-46 up to the first await of send_json.
BroadcastStart(t) ==
    /\ task[t].pc = "scheduled"
    /\ IF task[t].rid \notin DOMAIN connections
       THEN task' = [task EXCEPT ![t] = Ended(@, "done")]
       ELSE \E w \in connections[task[t].rid] :
              task' = [task EXCEPT ![t] =
                 [@ EXCEPT !.pc = "write", !.cur = w, !.visited = {w},
                           !.used = Cardinality(connections[task[t].rid]),
                           !.snapshot = connections[task[t].rid]]]
    /\ UNCHANGED << connections, subscriptions, table, store, sess, clientOpen, inbox,
                    events, deregCalls, committed, lastOp, response >>

\* The record of a sweep after the write it was suspended in has ended
\* (lines 45-48).
AfterWrite(tk, ok) ==
    [tk EXCEPT !.dead = IF ok THEN @ ELSE Append(@, tk.cur),
               !.cur = None]

StatusUpdate(tk) == << "status_update", tk.rid, tk.seq >>

RECURSIVE CountIn(_, _)
CountIn(seq, x) ==
    IF seq = << >> THEN 0
    ELSE (IF Head(seq) = x THEN 1 ELSE 0) + CountIn(Tail(seq), x)

\* The sweep with its error surfaced to the request: a dispatch that raises
\* turns the mutation's result into an error.
BroadcastWrite_surfaces(t) ==
    /\ task[t].pc = "write"
    /\ LET w   == task[t].cur
           ok  == Writable(w)
           tk1 == AfterWrite(task[t], ok)
       IN  /\ inbox' = IF ok THEN [inbox EXCEPT ![w] = Append(@, StatusUpdate(tk1))]
                       ELSE inbox
           /\ \/ /\ SizeChanged(tk1, connections)
                 /\ task' = [task EXCEPT ![t] = Ended(tk1, "raised")]
                 /\ response' = [response EXCEPT ![t] = 500]
                 /\ UNCHANGED << connections, subscriptions, table, deregCalls >>
              \/ /\ ~SizeChanged(tk1, connections)
                 /\ \E n \in Remaining(tk1, connections) :
                      task' = [task EXCEPT ![t] =
                                 [tk1 EXCEPT !.cur = n, !.visited = @ \cup {n},
                                             !.passed = IF tk1.moved
                                                        THEN @ \cup {n} ELSE @]]
                 /\ UNCHANGED << connections, subscriptions, table, deregCalls, response >>
              \/ /\ ~SizeChanged(tk1, connections)
                 /\ CanStop(tk1, connections)
                 /\ SetRegistry(disconnect_all(connections, subscriptions, tk1.dead))
                 /\ deregCalls' = [c \in DOMAIN deregCalls |->
                                     deregCalls[c] + CountIn(tk1.dead, c)]
                 /\ task' = Track([task EXCEPT ![t] = Ended(tk1, "done")],
                                  connections, connections')
                 /\ UNCHANGED response
    /\ UNCHANGED << store, sess, clientOpen, events, committed, lastOp >>

\* Lines 44-52 from the end of one write: the write's outcome, then next(),
\* which raises, yields the next subscriber, or ends the loop; the cleanup
\* loop follows the end of the sweep without an await.
BroadcastWrite(t) ==
    /\ task[t].pc = "write"
    /\ LET w   == task[t].cur
           ok  == Writable(w)
           tk1 == AfterWrite(task[t], ok)
       IN  /\ inbox' = IF ok THEN [inbox EXCEPT ![w] = Append(@, StatusUpdate(tk1))]
                       ELSE inbox
           /\ \/ /\ SizeChanged(tk1, connections)
                 /\ task' = [task EXCEPT ![t] = Ended(tk1, "raised")]
                 /\ UNCHANGED << connections, subscriptions, table, deregCalls >>
              \/ /\ ~SizeChanged(tk1, connections)
                 /\ \E n \in Remaining(tk1, connections) :
                      task' = [task EXCEPT ![t] =
                                 [tk1 EXCEPT !.cur = n, !.visited = @ \cup {n},
                                             !.passed = IF tk1.moved
                                                        THEN @ \cup {n} ELSE @]]
                 /\ UNCHANGED << connections, subscriptions, table, deregCalls >>
              \/ /\ ~SizeChanged(tk1, connections)
                 /\ CanStop(tk1, connections)
                 /\ SetRegistry(disconnect_all(connections, subscriptions, tk1.dead))
                 /\ deregCalls' = [c \in DOMAIN deregCalls |->
                                     deregCalls[c] + CountIn(tk1.dead, c)]
                 /\ task' = Track([task EXCEPT ![t] = Ended(tk1, "done")],
                                  connections, connections')
    /\ UNCHANGED << store, sess, clientOpen, events, committed, lastOp, response >>

Next ==
    \/ \E c \in Conns, r \in RobotIds : RobotQuery(c, r)
    \/ \E c \in Conns : RobotAccept(c)
    \/ \E c \in Conns : RobotSendConnected(c)
    \/ \E c \in Conns : FleetAccept(c)
    \/ \E c \in Conns : FleetQuery(c)
    \/ \E c \in Conns : FleetSendConnected(c)
    \/ \E c \in Conns : ReceiveDisconnect(c)
    \/ \E c \in Conns, f \in Frames : ReceiveFrame(c, f)
    \/ \E c \in Conns : SendPong(c)
    \/ \E c \in Conns : ClientClose(c)
    \/ \E t \in Tasks, r \in RobotIds : update_robot_status(t, r)
    \/ \E t \in Tasks : commit(t)
    \/ \E t \in Tasks : BroadcastStart(t)
    \/ \E t \in Tasks : BroadcastWrite(t)

Spec == Init /\ [][Next]_vars

\* ------------------------------------ the other mutations of a robot
\* robots.py lines 75-89: the robot is looked up, mutated and flushed, and the
\* handler returns it; no background task is added.  The step is the whole
\* request: nothing but the Data Store sees it, at the commit that ends it.
update_robot(r) ==
    /\ Input
    /\ r \in DOMAIN store
    /\ ~RowLocked(r)
    /\ committed' = committed + 1
    /\ store' = [store EXCEPT ![r] = committed + 1]
    /\ UNCHANGED << connections, subscriptions, table, sess, clientOpen, inbox,
                    deregCalls, task, lastOp, response >>

\* robots.py lines 147-154: the robot is looked up and deleted; no background
\* task is added and the registry is not touched.
delete_robot(r) ==
    /\ Input
    /\ r \in DOMAIN store
    /\ ~RowLocked(r)
    /\ committed' = committed + 1
    /\ store' = Restrict(store, DOMAIN store \ {r})
    /\ UNCHANGED << connections, subscriptions, table, sess, clientOpen, inbox,
                    deregCalls, task, lastOp, response >>

NextCrud ==
    \/ Next
    \/ \E r \in RobotIds : update_robot(r)
    \/ \E r \in RobotIds : delete_robot(r)

SpecCrud == Init /\ [][NextCrud]_vars

\* ----------------------------------------- a Data Store without gaps
\* The same program started on a Data Store that holds a robot under every
\* id: there are as many robot topics as ids.
InitAllResolve ==
    /\ connections = EmptyDict
    /\ subscriptions = EmptyDict
    /\ table = EmptyDict
    /\ store = [r \in RobotIds |-> 0]
    /\ sess = [c \in Conns |-> NewSess]
    /\ clientOpen = [c \in Conns |-> TRUE]
    /\ inbox = [c \in Conns |-> << >>]
    /\ events = 0
    /\ deregCalls = [c \in Conns |-> 0]
    /\ task = [t \in Tasks |-> IdleTask]
    /\ committed = 0
    /\ lastOp = << "none", None, {} >>
    /\ response = [t \in Tasks |-> None]

SpecAllResolve == InitAllResolve /\ [][Next]_vars

\* ------------------------------------------------- a crowded topic
\* The table of a set that was given n members and lost none.
RECURSIVE TableAfter(_)
TableAfter(n) == IF n = 1 THEN NewTable ELSE Added(TableAfter(n - 1), n, TRUE)

\* The program some time into its life: NumCrowd clients have connected to the
\* robot, one after the other, got their connected messages and are reading;
\* the last of them has just closed its side, which its handler has yet to
\* notice; no mutation has happened yet.  The run has CrowdEvents inputs left.
InitCrowd ==
    /\ connections = [T \in 1..NumRobots |-> 1..NumCrowd]
    /\ subscriptions = [c \in 1..NumCrowd |-> 1..NumRobots]
    /\ table = [T \in 1..NumRobots |-> TableAfter(NumCrowd)]
    /\ store = [r \in 1..NumRobots |-> 0]
    /\ sess = [c \in CrowdConns |->
                 IF c <= NumCrowd
                 THEN [NewSess EXCEPT !.pc = "receive", !.kind = "robot",
                                      !.rid = NumRobots]
                 ELSE NewSess]
    /\ clientOpen = [c \in CrowdConns |-> c # NumCrowd]
    /\ inbox = [c \in CrowdConns |->
                  IF c <= NumCrowd
                  THEN << << "connected", NumRobots, 0, c >> >>
                  ELSE << >>]
    /\ events = MaxEvents - CrowdEvents
    /\ deregCalls = [c \in CrowdConns |-> 0]
    /\ task = [t \in Tasks |-> IdleTask]
    /\ committed = 0
    /\ lastOp = << "none", None, {} >>
    /\ response = [t \in Tasks |-> None]

\* The run has one status mutation request: the first task slot is the only
\* one taken.
FirstTask == CHOOSE t \in Tasks : \A u \in Tasks : t <= u

NextCrowd ==
    \/ \E c \in CrowdConns, r \in RobotIds : RobotQuery(c, r)
    \/ \E c \in CrowdConns : RobotAccept(c)
    \/ \E c \in CrowdConns : RobotSendConnected(c)
    \/ \E c \in CrowdConns : FleetAccept(c)
    \/ \E c \in CrowdConns : FleetQuery(c)
    \/ \E c \in CrowdConns : FleetSendConnected(c)
    \/ \E c \in CrowdConns : ReceiveDisconnect(c)
    \/ \E c \in CrowdConns, f \in Frames : ReceiveFrame(c, f)
    \/ \E c \in CrowdConns : SendPong(c)
    \/ \E c \in CrowdConns : ClientClose(c)
    \/ \E r \in RobotIds : update_robot_status(FirstTask, r)
    \/ commit(FirstTask)
    \/ BroadcastStart(FirstTask)
    \/ BroadcastWrite(FirstTask)

SpecCrowd == InitCrowd /\ [][NextCrowd]_vars

\* ------------------------------------- the ConnectionManager API alone
\* The registry driven directly, as a unit test drives it: any WebSocket may
\* be connected to any topic, any number of times.
ApiConnect(c, T) ==
    /\ SetRegistry(connect(connections, subscriptions, c, T))
    /\ lastOp' = << "connect", c, Get(subscriptions, c, {}) >>
    /\ UNCHANGED << store, sess, clientOpen, inbox, events, deregCalls, task,
                    committed, response >>

\* disconnect without the test of line 30: `self._subscriptions[websocket]`
\* raises KeyError for a connection that has no entry.
ApiDisconnect_unguarded(c) ==
    /\ IF c \in DOMAIN subscriptions
       THEN /\ SetRegistry(disconnect(connections, subscriptions, c))
            /\ lastOp' = << "disconnect", c, subscriptions[c] >>
       ELSE /\ UNCHANGED << connections, subscriptions, table >>
            /\ lastOp' = << "KeyError", c, {} >>
    /\ UNCHANGED << store, sess, clientOpen, inbox, events, deregCalls, task,
                    committed, response >>

ApiDisconnect(c) ==
    /\ SetRegistry(disconnect(connections, subscriptions, c))
    /\ lastOp' = << "disconnect", c, Get(subscriptions, c, {}) >>
    /\ UNCHANGED << store, sess, clientOpen, inbox, events, deregCalls, task,
                    committed, response >>

NextReg ==
    \/ \E c \in ApiConns, T \in Topics : ApiConnect(c, T)
    \/ \E c \in ApiConns : ApiDisconnect(c)

SpecReg == Init /\ [][NextReg]_vars

\* --------------------------------------------- broadcast_fleet_update
\* No endpoint calls broadcast_fleet_update: it is driven directly, like the
\* rest of the manager's API, on connections of any number of topics, while
\* connects and disconnects go on; each of these calls is an input of the run.
CallConnect(c, T) ==
    /\ Input
    /\ SetRegistry(connect(connections, subscriptions, c, T))
    /\ lastOp' = << "connect", c, Get(subscriptions, c, {}) >>
    /\ UNCHANGED << store, sess, clientOpen, inbox, deregCalls, task,
                    committed, response >>

CallDisconnect(c) ==
    /\ Input
    /\ SetRegistry(disconnect(connections, subscriptions, c))
    /\ lastOp' = << "disconnect", c, Get(subscriptions, c, {}) >>
    /\ UNCHANGED << store, sess, clientOpen, inbox, deregCalls, task,
                    committed, response >>

\* A WebSocket's send_json raises from the moment its peer has gone.
PeerGone(c) ==
    /\ Input
    /\ clientOpen[c]
    /\ clientOpen' = [clientOpen EXCEPT ![c] = FALSE]
    /\ UNCHANGED << connections, subscriptions, table, store, sess, inbox,
                    deregCalls, task, committed, lastOp, response >>

FleetUpdate(t) == << "fleet_update", t >>

\* The sweep over the subscribers of the fleet topic alone.
broadcast_fleet_update_start_fleet_topic(t) ==
    /\ task[t].pc = "idle"
    /\ \A u \in Tasks : u < t => task[u].pc # "idle"
    /\ LET all_websockets == Get(connections, fleet_id, {})
       IN  IF all_websockets = {}
           THEN task' = [task EXCEPT ![t] = Ended(@, "done")]
           ELSE \E w \in all_websockets :
                  task' = [task EXCEPT ![t] =
                     [@ EXCEPT !.pc = "fleet_write", !.cur = w, !.visited = {w},
                               !.snapshot = all_websockets]]
    /\ UNCHANGED << connections, subscriptions, table, store, sess, clientOpen,
                    inbox, events, deregCalls, committed, lastOp, response >>

\* Lines 56-63 up to the first await of send_json: the members of every
\* topic's set are copied into a set of the call's own, which is what the for
\* loop iterates.
broadcast_fleet_update_start(t) ==
    /\ task[t].pc = "idle"
    /\ \A u \in Tasks : u < t => task[u].pc # "idle"
    /\ LET all_websockets == UNION {connections[T] : T \in DOMAIN connections}
       IN  IF all_websockets = {}
           THEN task' = [task EXCEPT ![t] = Ended(@, "done")]
           ELSE \E w \in all_websockets :
                  task' = [task EXCEPT ![t] =
                     [@ EXCEPT !.pc = "fleet_write", !.cur = w, !.visited = {w},
                               !.snapshot = all_websockets]]
    /\ UNCHANGED << connections, subscriptions, table, store, sess, clientOpen,
                    inbox, events, deregCalls, committed, lastOp, response >>

\* Lines 61-68 from the end of one write: the write's outcome, then the next
\* member of the call's own set, or the end of the loop and the cleanup loop.
broadcast_fleet_update_write(t) ==
    /\ task[t].pc = "fleet_write"
    /\ LET w   == task[t].cur
           ok  == clientOpen[w]
           tk1 == AfterWrite(task[t], ok)
       IN  /\ inbox' = IF ok THEN [inbox EXCEPT ![w] = Append(@, FleetUpdate(t))]
                       ELSE inbox
           /\ IF tk1.snapshot \ tk1.visited # {}
              THEN /\ \E n \in tk1.snapshot \ tk1.visited :
                        task' = [task EXCEPT ![t] =
                                   [tk1 EXCEPT !.cur = n, !.visited = @ \cup {n}]]
                   /\ UNCHANGED << connections, subscriptions, table, deregCalls >>
              ELSE /\ SetRegistry(disconnect_all(connections, subscriptions, tk1.dead))
                   /\ deregCalls' = [c \in DOMAIN deregCalls |->
                                       deregCalls[c] + CountIn(tk1.dead, c)]
                   /\ task' = [task EXCEPT ![t] = Ended(tk1, "done")]
    /\ UNCHANGED << store, sess, clientOpen, events, committed, lastOp, response >>

NextFleetCast ==
    \/ \E c \in ApiConns, T \in Topics : CallConnect(c, T)
    \/ \E c \in ApiConns : CallDisconnect(c)
    \/ \E c \in ApiConns : PeerGone(c)
    \/ \E t \in Tasks : broadcast_fleet_update_start(t)
    \/ \E t \in Tasks : broadcast_fleet_update_write(t)

SpecFleetCast == Init /\ [][NextFleetCast]_vars

\* ====================================================== properties
Registered(C, S, c) == c \in DOMAIN S \/ \E T \in DOMAIN C : c \in C[T]

SeqToSet(q) == {q[i] : i \in 1..Len(q)}

Has(c, m) == \E i \in 1..Len(inbox[c]) : inbox[c][i] = m

\* C1: in every reachable state a connection c is in _connections[T] if and
\* only if T is in _subscriptions[c].
C1_RegistryMapsAgree ==
    \A c \in Conns, T \in Topics :
        (T \in DOMAIN connections /\ c \in connections[T])
            <=> (c \in DOMAIN subscriptions /\ T \in subscriptions[c])

\* C1 witness: a robot subscriber and a fleet subscriber are registered after
\* some connection has been deregistered.
C1_Witness ==
    \E c, d, e \in Conns :
        /\ fleet_id \in DOMAIN connections /\ c \in connections[fleet_id]
        /\ \E r \in RobotIds : r \in DOMAIN connections /\ d \in connections[r]
        /\ deregCalls[e] > 0

\* The dead_connections list a sweep has once the write it is suspended in
\* has ended.
FinalDead(t) == SeqToSet(AfterWrite(task[t], Writable(task[t].cur)).dead)

\* C2: a dispatch whose topic set nobody changes during the sweep does not
\* raise; when it returns, every subscriber whose write succeeded has got the
\* event once and is still registered, every subscriber whose write failed is
\* in neither map, and disconnect was called once on each failed subscriber
\* and on nobody else.
C2_FailedSubscriberCleaned ==
    [][\A t \in Tasks :
        (task[t].pc = "write" /\ task[t].added = {} /\ task[t].removed = {}) =>
            /\ task'[t].pc # "raised"
            /\ task'[t].pc = "done" =>
                 /\ \A w \in task[t].snapshot \ FinalDead(t) :
                      /\ CountIn(inbox'[w], StatusUpdate(task[t])) = 1
                      /\ task[t].rid \in DOMAIN connections'
                      /\ w \in connections'[task[t].rid]
                 /\ \A w \in FinalDead(t) :
                      /\ w \in task[t].snapshot
                      /\ ~Registered(connections', subscriptions', w)
                      /\ ~Has(w, StatusUpdate(task[t]))'
                      /\ deregCalls'[w] = deregCalls[w] + 1
                 /\ \A w \in Conns \ FinalDead(t) : deregCalls'[w] = deregCalls[w]
      ]_vars

\* C2 witness: the only dispatch so far has returned; c1 holds its event and
\* is registered; c2, whose client had closed, was subscribed, holds no event
\* and was deregistered once, by the dispatch (its handler still waits).
C2_Witness ==
    \E c1, c2 \in Conns :
        /\ c1 # c2
        /\ task[1].pc = "done" /\ \A t \in Tasks : t # 1 => task[t].pc = "idle"
        /\ task[1].snapshot = {c1, c2}
        /\ Has(c1, StatusUpdate(task[1]))
        /\ task[1].rid \in DOMAIN connections /\ c1 \in connections[task[1].rid]
        /\ ~clientOpen[c2] /\ sess[c2].pc = "receive"
        /\ ~Has(c2, StatusUpdate(task[1]))
        /\ ~Registered(connections, subscriptions, c2)
        /\ deregCalls[c2] = 1

\* C3: a close of a subscriber of the topic that runs while the sweep is
\* suspended in a write does not make the dispatch raise.
C3_CloseDuringSweepTolerated ==
    [][\A t \in Tasks :
        (task[t].pc = "write" /\ task[t].removed # {} /\ task[t].added = {})
            => task'[t].pc # "raised"
      ]_vars

\* C4: a connection that registers on the topic while the sweep is suspended
\* neither makes the dispatch fail nor changes what it attempts: it ends
\* having attempted exactly the subscribers registered at lookup time.
C4_SweepsSnapshot ==
    [][\A t \in Tasks :
        (task[t].pc = "write" /\ task'[t].pc # "write"
            /\ task[t].added # {} /\ task[t].removed = {})
            => (task'[t].pc = "done" /\ task[t].visited = task[t].snapshot)
      ]_vars

\* C5: once a session's handler has terminated, the connection is in neither
\* registry map.
C5_ClosedNotRegistered ==
    \A c \in Conns :
        sess[c].pc \in {"closed", "crashed", "rejected"}
            => ~Registered(connections, subscriptions, c)

\* C6: when a session is finalized Closed, disconnect has been called for its
\* connection exactly once.
C6_DeregisteredExactlyOnce ==
    \A c \in Conns : sess[c].pc = "closed" => deregCalls[c] = 1

\* C7: disconnect(c) leaves c in no topic's set and without an entry of its
\* own, removes the entry of every topic it emptied (its count is 0), and
\* changes nothing of the other connections.
C7_DisconnectRemovesEverywhere ==
    [][\A c \in Conns :
        (ApiDisconnect(c) /\ c \in DOMAIN subscriptions) =>
            /\ ~Registered(connections', subscriptions', c)
            /\ \A T \in DOMAIN connections :
                 IF connections[T] \ {c} = {}
                 THEN /\ T \notin DOMAIN connections'
                      /\ get_connection_count(connections', T) = 0
                 ELSE /\ T \in DOMAIN connections'
                      /\ connections'[T] = connections[T] \ {c}
            /\ DOMAIN connections' \subseteq DOMAIN connections
            /\ DOMAIN subscriptions' = DOMAIN subscriptions \ {c}
            /\ \A d \in DOMAIN subscriptions' : subscriptions'[d] = subscriptions[d]
      ]_vars

\* C7 witness: the last call was disconnect of a connection subscribed to two
\* topics, one of which it shared with a connection that is still there.
C7_Witness ==
    /\ lastOp[1] = "disconnect"
    /\ Cardinality(lastOp[3]) = 2
    /\ \E T \in lastOp[3] : T \in DOMAIN connections
    /\ \E T \in lastOp[3] : T \notin DOMAIN connections
    /\ ~Registered(connections, subscriptions, lastOp[2])

\* C8: a robot connection whose robot id does not resolve changes neither
\* registry map, is never accepted, gets no message, and ends closed with
\* code 4004.
C8_UnknownRobotRefused ==
    [][\A c \in Conns :
        /\ (sess[c].pc = "new" /\ sess'[c].kind = "robot"
               /\ sess'[c].rid \notin DOMAIN store)
             => /\ sess'[c].pc = "rejected"
                /\ sess'[c].code = 4004
                /\ connections' = connections
                /\ subscriptions' = subscriptions
        /\ sess[c].pc = "rejected"
             => /\ sess'[c] = sess[c]
                /\ inbox'[c] = << >>
                /\ ~Registered(connections', subscriptions', c)
      ]_vars

\* C8 witness: a refused attempt beside a registered connection.
C8_Witness ==
    \E c, d \in Conns :
        /\ sess[c].pc = "rejected" /\ sess[c].code = 4004
        /\ sess[c].rid \notin DOMAIN store
        /\ Registered(connections, subscriptions, d)

\* The status_update messages a connection has received, in order.
IsStatusUpdate(m) == m[1] = "status_update"

Updates(c) == SelectSeq(inbox[c], IsStatusUpdate)

\* The connections subscribed to the robot when each of the two dispatches
\* looked the topic up, and still subscribed now.
Throughout ==
    {c \in Conns :
        /\ c \in task[1].snapshot /\ c \in task[2].snapshot
        /\ task[1].rid \in DOMAIN connections
        /\ c \in connections[task[1].rid]}

\* C9: after two sequential status mutations of a robot whose two dispatches
\* have ended, each of two subscribers registered throughout has received
\* exactly one status_update per mutation, the first mutation's first.
C9_EachOnceInOrder ==
    (/\ \A t \in {1, 2} : task[t].pc \in {"done", "raised"}
     /\ task[1].rid = task[2].rid
     /\ Cardinality(Throughout) = 2)
        => \A c \in Throughout :
             Updates(c) = << StatusUpdate(task[1]), StatusUpdate(task[2]) >>

\* C10: the first message a robot-scoped connection receives is its
\* connected message.
C10_ConnectedFirst ==
    \A c \in Conns :
        (sess[c].kind = "robot" /\ inbox[c] # << >>)
            => inbox[c][1][1] = "connected"

\* The connected messages a connection has received.
IsConnected(m) == m[1] = "connected"

ConnectedIn(c) == SelectSeq(inbox[c], IsConnected)

\* C11: a robot connection gets its connected message once, and never a
\* second one; the message's subscribers field is the size of the robot's
\* topic set at the instant this connection was added to it, itself included
\* (1 for the first subscriber), whatever registers while the write is
\* pending.
C11_CountAtRegistration ==
    [][\A c \in Conns :
        /\ (sess[c].pc = "accept" /\ sess'[c].pc = "send_connected") =>
             LET before == Get(connections, sess[c].rid, {})
             IN  /\ c \notin before
                 /\ connections'[sess[c].rid] = before \cup {c}
                 /\ sess'[c].msg = << "connected", sess[c].rid, sess[c].snap,
                                      Cardinality(before) + 1 >>
        /\ (sess[c].pc = "send_connected" /\ sess'[c].pc = "send_connected")
             => sess'[c].msg = sess[c].msg
        /\ (sess[c].pc = "send_connected" /\ sess'[c].pc = "receive")
             => inbox'[c] = Append(inbox[c], sess[c].msg)
        /\ (sess'[c].kind = "robot"
               /\ ~(sess[c].pc = "send_connected" /\ sess'[c].pc = "receive"))
             => ConnectedIn(c)' = ConnectedIn(c)
        /\ (sess'[c].kind = "robot" /\ sess'[c].pc \in {"receive", "send_pong"})
             => Len(ConnectedIn(c)') = 1
      ]_vars

\* C11 witness: the first subscriber holds a connected message that counts 1
\* while a second connection is registered on the robot and its own connected
\* message, which counts 2, is still being written.
C11_Witness ==
    \E c, d \in Conns :
        /\ c # d
        /\ sess[c].kind = "robot" /\ sess[d].kind = "robot"
        /\ sess[c].rid = sess[d].rid
        /\ Len(ConnectedIn(c)) = 1 /\ ConnectedIn(c)[1][4] = 1
        /\ sess[d].pc = "send_connected" /\ sess[d].msg[4] = 2
        /\ Get(connections, sess[c].rid, {}) = {c, d}

\* C12: get_connection_count() with no topic is the number of distinct
\* connections registered across all topics, in every registry state.
C12_CountsDistinct ==
    get_connection_count(connections, None)
        = Cardinality(UNION {connections[T] : T \in DOMAIN connections})

\* The pong messages a connection has received.
IsPong(m) == m = << "pong" >>

Pongs(c) == SelectSeq(inbox[c], IsPong)

\* C13: in a session of either kind, a frame of type ping changes neither
\* registry map and makes the handler write one pong; while the client stays
\* connected that write puts exactly one pong on the connection, again without
\* touching the registry, and the handler goes back to reading; no other step
\* writes a pong.
C13_PingOnePong ==
    [][\A c \in Conns :
        /\ ReceiveFrame(c, "ping") =>
             /\ sess[c].kind \in {"robot", "fleet"}
             /\ sess'[c].pc = "send_pong"
             /\ inbox' = inbox
             /\ connections' = connections /\ subscriptions' = subscriptions
        /\ (sess[c].pc = "receive" /\ clientOpen[c] /\ sess'[c].pc = "send_pong")
             => ReceiveFrame(c, "ping")
        /\ (sess[c].pc = "send_pong" /\ Writable(c) /\ sess'[c] # sess[c]) =>
             /\ sess'[c].pc = "receive"
             /\ inbox'[c] = Append(inbox[c], << "pong" >>)
             /\ connections' = connections /\ subscriptions' = subscriptions
        /\ ~(sess[c].pc = "send_pong" /\ sess'[c].pc = "receive")
             => Pongs(c)' = Pongs(c)
      ]_vars

\* C13 witness: a robot session and a fleet session have each answered a ping
\* and are registered and reading.
C13_Witness ==
    \E c, d \in Conns :
        /\ sess[c].kind = "robot" /\ sess[d].kind = "fleet"
        /\ sess[c].pc = "receive" /\ sess[d].pc = "receive"
        /\ Len(Pongs(c)) = 1 /\ Len(Pongs(d)) = 1
        /\ c \in Get(connections, sess[c].rid, {})
        /\ d \in Get(connections, fleet_id, {})

\* C14: an inbound frame that is not a ping, whatever its shape, raises no
\* error and is ignored: nothing is written, the registry is unchanged, and
\* the session keeps reading, still registered.
C14_NonPingIgnored ==
    [][\A c \in Conns, f \in Frames \ {"ping"} :
        ReceiveFrame(c, f) =>
            /\ sess'[c].pc = "receive"
            /\ inbox' = inbox
            /\ connections' = connections /\ subscriptions' = subscriptions
            /\ Registered(connections', subscriptions', c)
      ]_vars

C16_EveryMutationDispatched ==
    \A n \in 1..committed : \E t \in Tasks : task[t].seq = n

C18_HandlerNeverWaits ==
    \A t \in Tasks :
        /\ task[t].pc \in {"write", "done", "raised"} => response[t] = 200
        /\ response[t] = None
             => \A c \in Conns : ~Has(c, StatusUpdate(task[t]))

\* C18 witness: the dispatch of the first mutation is suspended in a write
\* that has not completed, its handler has long returned, and the handler of
\* a second mutation of the same robot has returned as well.
C18_Witness ==
    /\ task[1].pc = "write" /\ response[1] = 200
    /\ \A c \in Conns : ~Has(c, StatusUpdate(task[1]))
    /\ task[2].pc \in {"returned", "scheduled"} /\ response[2] = 200
    /\ task[2].rid = task[1].rid

C20_RegisterIdempotent ==
    [][\A c \in ApiConns, T \in Topics :
        (/\ ApiConnect(c, T)
         /\ T \in DOMAIN connections
         /\ c \in connections[T]) =>
            /\ connections' = connections
            /\ subscriptions' = subscriptions
            /\ \A U \in Topics \cup {None} :
                 get_connection_count(connections', U)
                     = get_connection_count(connections, U)
      ]_vars

\* C20 witness: the last call was a connect of a connection to a topic it was
\* already registered on, one of two it holds, beside another connection.
C20_Witness ==
    /\ lastOp[1] = "connect"
    /\ Cardinality(lastOp[3]) = 2
    /\ Get(subscriptions, lastOp[2], {}) = lastOp[3]
    /\ \E d \in ApiConns : d # lastOp[2] /\ d \in DOMAIN subscriptions

\* C21: disconnect(c) on a connection that is in neither registry map (never
\* registered, or deregistered before) returns without an error and leaves
\* both maps as they were.
C21_DisconnectIdempotent ==
    [][\A c \in ApiConns :
        (ApiDisconnect(c) /\ ~Registered(connections, subscriptions, c)) =>
            /\ lastOp'[1] = "disconnect"
            /\ connections' = connections
            /\ subscriptions' = subscriptions
      ]_vars

\* C21 witness: the last call was a disconnect of a connection that had no
\* entry, while another connection is registered on two topics.
C21_Witness ==
    /\ lastOp[1] = "disconnect"
    /\ lastOp[3] = {}
    /\ ~Registered(connections, subscriptions, lastOp[2])
    /\ \E d \in ApiConns : d # lastOp[2]
                             /\ Cardinality(Get(subscriptions, d, {})) = 2

\* C22: within one broadcast_robot_update call no subscriber is written to
\* twice: the connection a sweep turns to next is never one it has already
\* attempted, whether that write succeeded or failed.
C22_NoSecondAttempt ==
    [][\A t \in Tasks :
        (BroadcastWrite(t) /\ task'[t].pc = "write")
            => task'[t].cur \notin task[t].visited
      ]_vars

\* The topics under which a connection is in the topic map.
TopicsOf(C, c) == {T \in DOMAIN C : c \in C[T]}

\* C23: the fleet endpoint accepts whatever the Data Store holds; the
\* connected message is built at the read with fleet_size the number of
\* robots stored then, is kept as built while the write is pending, and is the
\* only connected message the connection ever gets; the step that puts it on
\* the connection is the one that registers the connection, which was
\* unregistered until then, and a fleet connection is only ever registered
\* under the fleet topic.
C23_FleetConnected ==
    [][\A c \in Conns :
        /\ FleetAccept(c) => sess'[c].pc = "fleet_query"
        /\ (sess[c].pc = "fleet_query" /\ sess'[c].pc = "fleet_send") =>
             sess'[c].msg = << "connected", fleet_id, Cardinality(DOMAIN store) >>
        /\ (sess[c].pc = "fleet_send" /\ sess'[c].pc = "fleet_send")
             => sess'[c].msg = sess[c].msg
        /\ (sess[c].pc = "fleet_send" /\ sess'[c].pc = "receive") =>
             /\ inbox'[c] = Append(inbox[c], sess[c].msg)
             /\ ~Registered(connections, subscriptions, c)
        /\ (sess'[c].kind = "fleet"
               /\ ~(sess[c].pc = "fleet_send" /\ sess'[c].pc = "receive")) =>
             /\ ConnectedIn(c)' = ConnectedIn(c)
             /\ Registered(connections', subscriptions', c)
                  => Registered(connections, subscriptions, c)
        /\ (sess'[c].kind = "fleet" /\ sess'[c].pc \in {"receive", "send_pong"})
             => Len(ConnectedIn(c)') = 1
        /\ (sess'[c].kind = "fleet"
               /\ Registered(connections', subscriptions', c)) =>
             /\ subscriptions'[c] = {fleet_id}
             /\ TopicsOf(connections', c) = {fleet_id}
      ]_vars

\* C23 witness: two fleet connections are registered under the fleet topic
\* and reading; the first was told a fleet of one robot, the second, which
\* came after the robot was deleted, a fleet of none.
C23_Witness ==
    \E c, d \in Conns :
        /\ sess[c].kind = "fleet" /\ sess[d].kind = "fleet"
        /\ sess[c].pc = "receive" /\ sess[d].pc = "receive"
        /\ ConnectedIn(c) = << << "connected", fleet_id, 1 >> >>
        /\ ConnectedIn(d) = << << "connected", fleet_id, 0 >> >>
        /\ DOMAIN store = {}
        /\ Get(connections, fleet_id, {}) = {c, d}
        /\ subscriptions = [x \in {c, d} |-> {fleet_id}]

\* C24: a step of broadcast_robot_update that goes on to another write
\* changes neither registry map, and when the dispatcher does deregister the
\* connections whose write failed, every connection that was subscribed at the
\* lookup and still is has had its write attempted.
C24_CleanupAfterSweep ==
    [][\A t \in Tasks :
        /\ ((BroadcastStart(t) \/ BroadcastWrite(t)) /\ task'[t].pc = "write")
             => connections' = connections /\ subscriptions' = subscriptions
        /\ (BroadcastWrite(t) /\ connections' # connections) =>
             (task[t].snapshot \cap Get(connections, task[t].rid, {}))
                 \subseteq task[t].visited
      ]_vars

\* C25: in every reachable state every topic key of _connections maps to a
\* set with at least one connection in it.
C25_NoEmptyTopic ==
    \A T \in DOMAIN connections : connections[T] # {}

\* C25 witness: a robot connection was deregistered as the last subscriber of
\* its topic; the topic's key is gone, while the fleet topic, which still has
\* a subscriber, is there.
C25_Witness ==
    \E c, d \in Conns :
        /\ sess[c].kind = "robot" /\ deregCalls[c] = 1
        /\ Len(ConnectedIn(c)) = 1
        /\ sess[c].rid \notin DOMAIN connections
        /\ c \notin DOMAIN subscriptions
        /\ Get(connections, fleet_id, {}) = {d}

\* C26: when a broadcast_robot_update call ends, every connection it failed
\* to write to is gone from the registry: it has no entry of its own and is
\* in no topic's set.
C26_FailedWriteDeregisters ==
    [][\A t \in Tasks :
        (BroadcastWrite(t) /\ task'[t].pc # "write") =>
            \A c \in SeqToSet(AfterWrite(task[t], Writable(task[t].cur)).dead) :
                ~Registered(connections', subscriptions', c)
      ]_vars

\* C27: broadcast_fleet_update sweeps the connections that were registered
\* under any topic when it was called: each write it turns to is to one of
\* them that it has not attempted yet, whatever the registry has become in the
\* meantime, and the call never raises; when it ends every one of them has
\* been attempted, none has the event twice, every one that has not got the
\* event is deregistered, and every other connection is registered exactly if
\* it was before the cleanup.
C27_FleetSweep ==
    [][\A t \in Tasks :
        /\ (broadcast_fleet_update_start(t) /\ task'[t].pc = "fleet_write") =>
             /\ task'[t].snapshot
                  = {c \in ApiConns : Registered(connections, subscriptions, c)}
             /\ task'[t].cur \in task'[t].snapshot
        /\ broadcast_fleet_update_write(t) =>
             /\ task'[t].pc \in {"fleet_write", "done"}
             /\ task'[t].pc = "fleet_write" =>
                  /\ task'[t].cur \in task[t].snapshot \ task[t].visited
                  /\ connections' = connections /\ subscriptions' = subscriptions
             /\ task'[t].pc = "done" =>
                  /\ task[t].visited = task[t].snapshot
                  /\ \A c \in ApiConns :
                       Registered(connections', subscriptions', c) <=>
                           /\ Registered(connections, subscriptions, c)
                           /\ c \in task[t].snapshot => Has(c, FleetUpdate(t))'
             /\ \A c \in ApiConns : CountIn(inbox'[c], FleetUpdate(t)) <= 1
      ]_vars

\* C27 witness: a broadcast_fleet_update call over two connections has ended;
\* the one that is subscribed to two topics has the event once and is still
\* subscribed to both, the other, whose peer had gone, has nothing and is
\* deregistered, by the call's cleanup alone.
C27_Witness ==
    \E t \in Tasks, c, d \in ApiConns :
        /\ task[t].pc = "done" /\ task[t].snapshot = {c, d} /\ c # d
        /\ inbox[c] = << FleetUpdate(t) >>
        /\ Cardinality(Get(subscriptions, c, {})) = 2
        /\ ~clientOpen[d] /\ inbox[d] = << >>
        /\ ~Registered(connections, subscriptions, d)
        /\ deregCalls[d] = 1
        /\ lastOp[1] = "connect"

\* C28: a connection enters the registry only from its handler's registration
\* step and only if disconnect was never called for it; once disconnect has
\* been called for it, by its handler or by a dispatcher's cleanup, no step
\* leaves it in either registry map and no step puts a status_update on it.
C28_RegisteredOnce ==
    [][\A c \in DOMAIN sess :
        /\ (~Registered(connections, subscriptions, c)
               /\ Registered(connections', subscriptions', c)) =>
             /\ deregCalls[c] = 0
             /\ sess[c].pc \in {"accept", "fleet_send"}
        /\ deregCalls[c] > 0 =>
             /\ ~Registered(connections', subscriptions', c)
             /\ Updates(c)' = Updates(c)
      ]_vars

\* C28 witness: connection c was deregistered by a dispatcher's cleanup and
\* its handler is still reading frames; a later dispatch, which did not find c
\* among the subscribers, has ended and its event is on connection d and not
\* on c.
C28_Witness ==
    \E c, d \in Conns, t, u \in Tasks :
        /\ c # d /\ t # u
        /\ sess[c].pc = "receive" /\ deregCalls[c] = 1
        /\ ~Registered(connections, subscriptions, c)
        /\ task[u].pc = "done" /\ c \in task[u].snapshot
        /\ task[t].pc = "done" /\ task[t].snapshot = {d}
        /\ task[u].seq < task[t].seq
        /\ Has(d, StatusUpdate(task[t]))
        /\ Updates(c) = << >>

====
